---- MODULE Spec2Model ----
(***************************************************************************)
(* Model of the Socket.IO chat relay of src/app.py (section 7 of the file):*)
(* the two session maps, the Socket.IO room subscriptions, the persisted   *)
(* rooms / participants / messages, and the four event handlers.  Every    *)
(* handler is cut at its suspension points (database round trips and the   *)
(* calls to the language model), so that handlers of different connections *)
(* interleave the way the server's concurrent event handling allows.       *)
(***************************************************************************)
EXTENDS Integers, Sequences, FiniteSets, TLC

(* ------------------------------ bounds --------------------------------- *)
NumUsers == 2
NumConns == 2
MaxRooms == 2
MaxMsgs == 2
MaxEvents == 3
MaxJoins == 2

Users == 1..NumUsers
Conns == 1..NumConns
RoomIds == 1..MaxRooms

\* The falsy value of Python (None, 0, ''): an absent map entry, a token that
\* does not decode, a missing target_user_id or room_id.
None == 0

(* ------------------------------ strings -------------------------------- *)
\* A string is a sequence of one-character strings.
Lower(ch) ==
    CASE ch = "A" -> "a"
      [] ch = "J" -> "j"
      [] ch = "U" -> "u"
      [] ch = "D" -> "d"
      [] ch = "B" -> "b"
      [] OTHER -> ch

LowerStr(s) == [i \in 1..Len(s) |-> Lower(s[i])]

StartsWith(s, p) == Len(s) >= Len(p) /\ SubSeq(s, 1, Len(p)) = p

IsSpace(ch) == ch \in {" ", "\n", "\t"}

RECURSIVE LStrip(_)
LStrip(s) == IF s # <<>> /\ IsSpace(Head(s)) THEN LStrip(Tail(s)) ELSE s

RECURSIVE RStrip(_)
RStrip(s) ==
    IF s # <<>> /\ IsSpace(s[Len(s)]) THEN RStrip(SubSeq(s, 1, Len(s) - 1)) ELSE s

Strip(s) == RStrip(LStrip(s))

CommandPrefix == <<"/", "a", "j", "u", "d", "a">>

\* Line 449: user_message.lower().startswith('/ajuda')
IsHelpCommand(user_message) == StartsWith(LowerStr(user_message), CommandPrefix)

\* Texts a client sends: the command in two letter cases, and text to be
\* translated, which contains the prefix but does not begin with it.
UserMessages ==
    { <<"/", "a", "j", "u", "d", "a", " ", "x">>,
      <<"/", "A", "J", "u", "d", "A">>,
      <<" ", "/", "a", "j", "u", "d", "a">> }

\* Texts the translation model answers with (response.text), padded or not.
ResponseTexts == { <<"B", "o", "n">>, <<" ", "B", "o", "n", "\n">> }

\* Text of the assistant's final answer.
HelpTexts == { <<"r">> }

\* data.get('target_lang', 'Inglês'): NoLang stands for an absent field.
DefaultTargetLang == "Ingles"
NoLang == ""
DeclaredLangs == {NoLang, "Frances"}
TargetLang(declared) == IF declared = NoLang THEN DefaultTargetLang ELSE declared

(* ------------------------------- state --------------------------------- *)
VARIABLES
    sids,                  \* Conns -> "new" | "open" | "closed": life of a socket id
    user_socket_map,       \* Users -> Conns or None
    socket_user_map,       \* Conns -> Users or None
    sio_rooms,             \* Conns -> set of Socket.IO rooms the sid has joined
    joined,                \* Conns -> RoomIds -> join_room calls made for the sid, up to MaxJoins
    chat_rooms,            \* committed rows of traduzaibot_chat_rooms
    room_participants,     \* committed rows of traduzaibot_room_participants
    messages,              \* committed rows of traduzaibot_messages
    room_seq,              \* last value of the serial id of traduzaibot_chat_rooms
    gemini_model,          \* whether the module-level gemini_model was created
    h,                     \* Conns -> the handler invocation running for that sid
    translated,            \* sids whose translation has completed and whose broadcast
                           \* is still to come, in the order the translations completed
    events                 \* number of events received so far (bounded)

vars == <<sids, user_socket_map, socket_user_map, sio_rooms, joined, chat_rooms,
          room_participants, messages, room_seq, gemini_model, h, translated,
          events>>

session == <<user_socket_map, socket_user_map>>
database == <<chat_rooms, room_participants, messages, room_seq>>

\* One handler invocation: its position, its arguments and locals, what it has
\* emitted so far (out), whether the sid had a session binding when the event
\* arrived (was_bound), how the translation call ended (translate: "" while not
\* made, "ok", "failed"), and what it did to the database (inserts attempted,
\* committed, id of the room created; loaded: the room query of authenticate
\* returned; missed: when authenticate arrived the user took part in a room the
\* sid was not subscribed to; for the assistant: the first reply of the model,
\* the searches run, how the search ended, the tool response built from it and
\* the reply to the second call).
Idle ==
    [ kind |-> "none", pc |-> "idle", user_id |-> None, target |-> None,
      room_id |-> None, message |-> <<>>, target_lang |-> NoLang,
      response_text |-> <<>>, translated_text |-> <<>>,
      was_bound |-> FALSE, inserts |-> 0, committed |-> FALSE, created |-> None,
      translate |-> "", loaded |-> FALSE, missed |-> FALSE,
      first_reply |-> "", searches |-> 0, search |-> "", tool_response |-> "",
      second_reply |-> "", out |-> <<>> ]

Running(c) == h[c].pc \notin {"idle", "done"}

\* An emission: the event, the room argument it was addressed to (a sid or a
\* chat room), the connections that receive it, how many copies each of them
\* receives, and its payload.
Packet(event, to, rcpt, room_id, text, lang, error) ==
    [ event |-> event, to |-> to, rcpt |-> rcpt, copies |-> [c \in rcpt |-> 1],
      room_id |-> room_id, text |-> text, lang |-> lang, error |-> error ]

\* emit(..., room=sid) and emit(...) inside a handler: delivered to that sid if
\* it is still connected.
ToSid(c, event, room_id, text, lang, error) ==
    Packet(event, <<"sid", c>>, IF sids[c] = "open" THEN {c} ELSE {},
           room_id, text, lang, error)

\* emit(..., room=str(room_id)): delivered to every sid that joined the room.
Subscribers(r) == { c \in Conns : sids[c] = "open" /\ r \in sio_rooms[c] }

DeliveriesPerJoin(c, r) == joined[c][r]

\* A room holds each sid at most once however often join_room was called for
\* it, so one emit to the room sends a member one copy.
Deliveries(c, r) == IF r \in sio_rooms[c] THEN 1 ELSE 0

ToRoom(r, event, text, lang) ==
    [Packet(event, <<"room", r>>, Subscribers(r), r, text, lang, "")
        EXCEPT !.copies = [c \in Subscribers(r) |-> Deliveries(c, r)]]

TypeOK ==
    /\ sids \in [Conns -> {"new", "open", "closed"}]
    /\ user_socket_map \in [Users -> Conns \cup {None}]
    /\ socket_user_map \in [Conns -> Users \cup {None}]
    /\ sio_rooms \in [Conns -> SUBSET RoomIds]
    /\ joined \in [Conns -> [RoomIds -> 0..MaxJoins]]
    /\ room_seq \in 0..MaxRooms
    /\ gemini_model \in BOOLEAN
    /\ events \in 0..MaxEvents
    /\ translated \in Seq(Conns)

Init ==
    /\ sids = [c \in Conns |-> "new"]
    /\ user_socket_map = [u \in Users |-> None]
    /\ socket_user_map = [c \in Conns |-> None]
    /\ sio_rooms = [c \in Conns |-> {}]
    /\ joined = [c \in Conns |-> [r \in RoomIds |-> 0]]
    /\ chat_rooms = {}
    /\ room_participants = <<>>
    /\ messages = <<>>
    /\ room_seq = 0
    /\ gemini_model \in BOOLEAN
    /\ h = [c \in Conns |-> Idle]
    /\ translated = <<>>
    /\ events = 0

\* get_user_from_token: the decoded user_id, or None for a token that is
\* missing, forged or expired.  A valid token names any registered user.
Tokens == Users \cup {None}

\* An event arrives on an open sid that has no handler in flight.
Receives(c) ==
    /\ sids[c] = "open"
    /\ ~Running(c)
    /\ events < MaxEvents
    /\ events' = events + 1

Begin(c, kind, token) ==
    [Idle EXCEPT !.kind = kind, !.user_id = token,
                 !.was_bound = (socket_user_map[c] # None)]

Finish(rec, packets) == [rec EXCEPT !.pc = "done", !.out = rec.out \o packets]

\* The record of an invocation that has returned lasts for one state: the next
\* step of any handler discards it.
Returned(hh) == [d \in Conns |-> IF hh[d].pc = "done" THEN Idle ELSE hh[d]]

(* ------------------------- connect / disconnect ------------------------ *)
handle_connect(c) ==
    /\ sids[c] = "new"
    /\ sids' = [sids EXCEPT ![c] = "open"]
    /\ h' = Returned(h)
    /\ UNCHANGED <<session, sio_rooms, joined, database, gemini_model, translated, events>>

\* The two pops of handle_disconnect.
Unbind(c) ==
    LET user_id == socket_user_map[c] IN
    /\ socket_user_map' = [socket_user_map EXCEPT ![c] = None]
    /\ user_socket_map' =
           IF user_id # None THEN [user_socket_map EXCEPT ![user_id] = None]
           ELSE user_socket_map

\* The server drops the sid from every Socket.IO room when it disconnects; a
\* handler of that sid that is suspended keeps running.
handle_disconnect(c) ==
    /\ sids[c] = "open"
    /\ sids' = [sids EXCEPT ![c] = "closed"]
    /\ Unbind(c)
    /\ sio_rooms' = [sio_rooms EXCEPT ![c] = {}]
    /\ joined' = [joined EXCEPT ![c] = [r \in RoomIds |-> 0]]
    /\ h' = Returned(h)
    /\ UNCHANGED <<database, gemini_model, translated, events>>

(* ------------------------------ authenticate --------------------------- *)
\* Lines 267-272: both map entries are written, nothing is removed.
Bind(user_id, c) ==
    /\ user_socket_map' = [user_socket_map EXCEPT ![user_id] = c]
    /\ socket_user_map' = [socket_user_map EXCEPT ![c] = user_id]

\* SELECT room_id FROM traduzaibot_room_participants WHERE user_id = %s
RoomsOf(user_id) ==
    { room_participants[i].room_id :
        i \in { j \in DOMAIN room_participants :
                  room_participants[j].user_id = user_id } }

handle_authentication(c) ==
    \E token \in Tokens :
        /\ Receives(c)
        /\ IF token = None
           THEN /\ h' = [Returned(h) EXCEPT ![c] = Finish(Begin(c, "authenticate", token),
                            <<ToSid(c, "auth_error", None, <<>>, NoLang, "auth")>>)]
                /\ UNCHANGED session
           ELSE /\ Bind(token, c)
                /\ h' = [Returned(h) EXCEPT ![c] =
                            [Begin(c, "authenticate", token) EXCEPT
                                !.pc = "auth_rooms",
                                !.missed = (RoomsOf(token) \ sio_rooms[c] # {}),
                                !.out = <<ToSid(c, "auth_success", None, <<>>, NoLang, "")>>]]
        /\ UNCHANGED <<sids, sio_rooms, joined, database, gemini_model, translated>>

\* join_room for a sid: a sid that has disconnected gets no subscription.
Join(rooms_now, c, rs) ==
    IF sids[c] = "open" THEN [rooms_now EXCEPT ![c] = @ \cup rs] ELSE rooms_now

\* The number of join_room calls made for each sid and room, which the server's
\* membership sets do not keep.
JoinCalls(joined_now, c, rs) ==
    IF sids[c] = "open"
    THEN [joined_now EXCEPT ![c] =
            [r \in RoomIds |-> IF r \in rs /\ @[r] < MaxJoins THEN @[r] + 1 ELSE @[r]]]
    ELSE joined_now

RoomsToJoinFirstRow(user_id) ==
    IF RoomsOf(user_id) = {} THEN {}
    ELSE LET first == CHOOSE j \in DOMAIN room_participants :
                         /\ room_participants[j].user_id = user_id
                         /\ \A k \in 1..(j - 1) : room_participants[k].user_id # user_id
         IN {room_participants[first].room_id}

\* Lines 281-290: fetchall() and the loop that joins every room returned.
RoomsToJoin(user_id) == RoomsOf(user_id)

RoomLoadFailedReported(c) == <<ToSid(c, "auth_error", None, <<>>, NoLang, "rooms")>>

\* Lines 294-295: the exception of the room query is printed, nothing is emitted.
RoomLoadFailed(c) == <<>>

\* Lines 278-297: the query and the join loop, or an exception that is logged.
AuthRooms(c) ==
    /\ h[c].pc = "auth_rooms"
    /\ \E db_ok \in BOOLEAN :
          /\ sio_rooms' = IF db_ok THEN Join(sio_rooms, c, RoomsToJoin(h[c].user_id))
                          ELSE sio_rooms
          /\ joined' = IF db_ok THEN JoinCalls(joined, c, RoomsToJoin(h[c].user_id))
                       ELSE joined
          /\ h' = [Returned(h) EXCEPT ![c] =
                      Finish([@ EXCEPT !.loaded = db_ok],
                             IF db_ok THEN <<>> ELSE RoomLoadFailed(c))]
    /\ UNCHANGED <<sids, session, database, gemini_model, translated, events>>

(* -------------------------- request_conversation ----------------------- *)
\* Lines 302-314: a token that does not decode ends the handler without any
\* emission, before target_user_id is read; a missing target is reported to the
\* requester.
handle_request_conversation(c) ==
    /\ Receives(c)
    /\ room_seq + Cardinality({d \in Conns : h[d].pc \in {"conv_select", "conv_insert"}})
          < MaxRooms
    /\ \E token \in Tokens :
          LET rec == Begin(c, "request_conversation", token) IN
          IF token = None
          THEN h' = [Returned(h) EXCEPT ![c] = Finish(rec, <<>>)]
          ELSE \E target_user_id \in Users \cup {None} :
                 h' = [Returned(h) EXCEPT ![c] =
                         IF target_user_id = None
                         THEN Finish(rec, <<ToSid(c, "chat_error", None, <<>>, NoLang,
                                                  "target")>>)
                         ELSE [rec EXCEPT !.pc = "conv_select",
                                          !.target = target_user_id]]
    /\ UNCHANGED <<sids, session, sio_rooms, joined, database, gemini_model, translated>>

\* user_ids = sorted([my_user_id, target_user_id])
SortedPair(a, b) == IF a <= b THEN <<a, b>> ELSE <<b, a>>

\* The query of lines 322-328 on the committed rows.
ExistingRooms(user_ids) ==
    { r \in chat_rooms :
        /\ r.is_private
        /\ \E i, j \in DOMAIN room_participants :
              /\ room_participants[i].room_id = r.id
              /\ room_participants[j].room_id = r.id
              /\ room_participants[i].user_id = user_ids[1]
              /\ room_participants[j].user_id = user_ids[2] }

\* Lines 318-335: the lookup; fetchone() returns any one of the matching rows.
ConvSelect(c) ==
    /\ h[c].pc = "conv_select"
    /\ LET found == ExistingRooms(SortedPair(h[c].user_id, h[c].target)) IN
       \E db_ok \in BOOLEAN :
          IF ~db_ok
          THEN h' = [Returned(h) EXCEPT ![c] =
                       Finish(@, <<ToSid(c, "chat_error", None, <<>>, NoLang, "conv")>>)]
          ELSE IF found # {}
               THEN \E existing_room \in found :
                       h' = [Returned(h) EXCEPT ![c] = Finish(@,
                               <<ToSid(c, "conversation_ready", existing_room.id,
                                       <<>>, NoLang, "")>>)]
               ELSE h' = [Returned(h) EXCEPT ![c].pc = "conv_insert"]
    /\ UNCHANGED <<sids, session, sio_rooms, joined, database, gemini_model, translated, events>>

\* The two rows of lines 342-345.
ParticipantRows(user_ids, new_room_id) ==
    << [user_id |-> user_ids[1], room_id |-> new_room_id],
       [user_id |-> user_ids[2], room_id |-> new_room_id] >>

\* How the transaction of lines 338-346 ends: committed, or rolled back because
\* the first or the second INSERT (or the commit) raised.
InsertOutcomes == {"committed", "room_insert_failed", "participants_insert_failed"}

\* The serial id of the room is consumed once the first INSERT has run, even
\* when the transaction is rolled back afterwards.
NextRoomSeq(outcome) == IF outcome = "room_insert_failed" THEN room_seq ELSE room_seq + 1

RoomsAfterInsertAutocommit(outcome, new_room_id) ==
    IF outcome \in {"committed", "participants_insert_failed"}
    THEN chat_rooms \cup {[id |-> new_room_id, is_private |-> TRUE]}
    ELSE chat_rooms

\* Lines 338-346 and 370-372: the room row is visible after conn.commit() and
\* is discarded by conn.rollback() when anything before the commit raised.
RoomsAfterInsert(outcome, new_room_id) ==
    IF outcome = "committed"
    THEN chat_rooms \cup {[id |-> new_room_id, is_private |-> TRUE]}
    ELSE chat_rooms

\* Lines 338-355.  After the commit the requester's sid joins the room, and so
\* does the sid user_socket_map holds for the target; joining a sid that has
\* disconnected either does nothing or raises, depending on the Socket.IO server.
ConvInsert(c) ==
    /\ h[c].pc = "conv_insert"
    /\ LET new_room_id == room_seq + 1
           user_ids == SortedPair(h[c].user_id, h[c].target)
           target_socket_sid == user_socket_map[h[c].target]
           failed(rec) == Finish(rec, <<ToSid(c, "chat_error", None, <<>>, NoLang, "conv")>>)
       IN \E outcome \in InsertOutcomes, join_raises \in BOOLEAN :
          /\ room_seq' = NextRoomSeq(outcome)
          /\ chat_rooms' = RoomsAfterInsert(outcome, new_room_id)
          /\ IF outcome # "committed"
             THEN /\ h' = [Returned(h) EXCEPT ![c] = failed(@)]
                  /\ UNCHANGED <<room_participants, sio_rooms, joined>>
             ELSE /\ room_participants' =
                         room_participants \o ParticipantRows(user_ids, new_room_id)
                  /\ LET rec == [h[c] EXCEPT !.created = new_room_id, !.committed = TRUE]
                         mine == Join(sio_rooms, c, {new_room_id})
                         calls == JoinCalls(joined, c, {new_room_id})
                     IN IF sids[c] # "open" /\ join_raises
                        THEN /\ sio_rooms' = sio_rooms
                             /\ joined' = joined
                             /\ h' = [Returned(h) EXCEPT ![c] = failed(rec)]
                        ELSE IF target_socket_sid = None
                        THEN /\ sio_rooms' = mine
                             /\ joined' = calls
                             /\ h' = [Returned(h) EXCEPT ![c] = Finish(rec,
                                       <<ToSid(c, "conversation_ready", new_room_id,
                                               <<>>, NoLang, "")>>)]
                        ELSE IF sids[target_socket_sid] # "open" /\ join_raises
                        THEN /\ sio_rooms' = mine
                             /\ joined' = calls
                             /\ h' = [Returned(h) EXCEPT ![c] = failed(rec)]
                        ELSE /\ sio_rooms' = Join(mine, target_socket_sid, {new_room_id})
                             /\ joined' = JoinCalls(calls, target_socket_sid, {new_room_id})
                             /\ h' = [Returned(h) EXCEPT ![c] =
                                        [rec EXCEPT !.pc = "conv_invite",
                                                    !.room_id = target_socket_sid]]
    /\ UNCHANGED <<sids, session, messages, gemini_model, translated, events>>

\* Lines 357-368: the target's name is read, then the invite and the reply are
\* emitted.  The handler's room_id field holds target_socket_sid here.
ConvInvite(c) ==
    /\ h[c].pc = "conv_invite"
    /\ \E db_ok \in BOOLEAN :
          h' = [Returned(h) EXCEPT ![c] =
                  IF db_ok
                  THEN Finish(@,
                         << ToSid(h[c].room_id, "new_conversation_invite", h[c].created,
                                  <<>>, NoLang, ""),
                            ToSid(c, "conversation_ready", h[c].created, <<>>, NoLang, "") >>)
                  ELSE Finish(@, <<ToSid(c, "chat_error", None, <<>>, NoLang, "conv")>>)]
    /\ UNCHANGED <<sids, session, sio_rooms, joined, database, gemini_model, translated, events>>

(* -------------------------- request_chat_history ----------------------- *)
\* The rows the query of lines 393-399 returns for a room.
History(room_id) == SelectSeq(messages, LAMBDA m : m.room_id = room_id)

\* Lines 380-385: both guards return without emitting.
handle_chat_history(c) ==
    /\ Receives(c)
    /\ \E token \in Tokens :
          LET rec == Begin(c, "request_chat_history", token) IN
          IF token = None
          THEN h' = [Returned(h) EXCEPT ![c] = Finish(rec, <<>>)]
          ELSE \E room_id \in RoomIds \cup {None} :
                 h' = [Returned(h) EXCEPT ![c] =
                         IF room_id = None THEN Finish(rec, <<>>)
                         ELSE [rec EXCEPT !.pc = "hist_select", !.room_id = room_id]]
    /\ UNCHANGED <<sids, session, sio_rooms, joined, database, gemini_model, translated>>

\* Lines 387-425.  The packet's text field carries the translated texts of the
\* rows returned, in order.
HistSelect(c) ==
    /\ h[c].pc = "hist_select"
    /\ \E db_ok \in BOOLEAN :
          h' = [Returned(h) EXCEPT ![c] =
                  IF db_ok
                  THEN Finish(@, <<ToSid(c, "chat_history_loaded", h[c].room_id,
                                         [i \in 1..Len(History(h[c].room_id)) |->
                                             History(h[c].room_id)[i].message_translated],
                                         NoLang, "")>>)
                  ELSE Finish(@, <<ToSid(c, "chat_error", None, <<>>, NoLang, "hist")>>)]
    /\ UNCHANGED <<sids, session, sio_rooms, joined, database, gemini_model, translated, events>>

(* ------------------------------ send_message --------------------------- *)
\* Lines 430-450, up to the first call of the language model.  The fields of
\* the event are read after the token check, and target_lang is not used by
\* the command branch.
handle_chat_message(c) ==
    /\ Receives(c)
    /\ Len(messages) + Cardinality({d \in Conns :
             h[d].pc \in {"send_translate", "send_insert"}}) < MaxMsgs
    /\ \E token \in Tokens :
          LET rec == Begin(c, "send_message", token) IN
          IF token = None \/ ~gemini_model
          THEN h' = [Returned(h) EXCEPT ![c] =
                       Finish(rec, <<ToSid(c, "chat_error", None, <<>>, NoLang, "auth")>>)]
          ELSE \E room_id \in RoomIds \cup {None}, user_message \in UserMessages :
                 LET got == [rec EXCEPT !.room_id = room_id, !.message = user_message] IN
                 IF room_id = None
                 THEN h' = [Returned(h) EXCEPT ![c] =
                         Finish(got, <<ToSid(c, "chat_error", None, <<>>, NoLang, "room")>>)]
                 ELSE IF IsHelpCommand(user_message)
                 THEN h' = [Returned(h) EXCEPT ![c] = [got EXCEPT !.pc = "send_help"]]
                 ELSE \E declared \in DeclaredLangs :
                        h' = [Returned(h) EXCEPT ![c] =
                                [got EXCEPT !.pc = "send_translate",
                                            !.target_lang = TargetLang(declared)]]
    /\ UNCHANGED <<sids, session, sio_rooms, joined, database, gemini_model, translated>>

HelpReplyToRoom(c, rec, help_text) ==
    <<ToRoom(rec.room_id, "receive_message", help_text, "my_lang")>>

\* Lines 467-474: the answer, addressed to room=request.sid.
HelpReply(c, rec, help_text) ==
    <<ToSid(c, "receive_message", rec.room_id, help_text, "my_lang", "")>>

\* What the first send_message of the chat comes back with: an exception, a
\* text answer, a call of tool_google_search with its query, or one whose args
\* lack the query.
FirstReplies == {"raised", "text", "tool_google_search", "tool_google_search_no_query"}

\* What the Custom Search request does: items, no items, or an exception.
SearchOutcomes == {"results", "empty", "raised"}

\* What the second send_message, which carries the tool response, comes back with.
SecondReplies == {"raised", "text"}

tool_google_search_unguarded(outcome) ==
    IF outcome = "results" THEN "results"
    ELSE IF outcome = "empty" THEN "error" ELSE "raised"

\* Lines 56-65: {"results": snippets}, or {"error": ...} when there are no
\* items or the request raised; the function itself never raises.
tool_google_search(outcome) ==
    IF outcome = "results" THEN "results" ELSE "error"

\* Lines 452-479: the assistant exchange, which touches no shared state, and
\* the reply to the sender's sid alone.  Any exception inside the try block
\* ends in the chat_error of lines 476-479.
SendHelp(c) ==
    /\ h[c].pc = "send_help"
    /\ LET failed(rec) == Finish(rec, <<ToSid(c, "chat_error", None, <<>>, NoLang, "ajuda")>>)
       IN \E first \in FirstReplies, help_text \in HelpTexts :
          LET asked == [h[c] EXCEPT !.first_reply = first] IN
          IF first \in {"raised", "tool_google_search_no_query"}
          THEN h' = [Returned(h) EXCEPT ![c] = failed(asked)]
          ELSE IF first = "text"
          THEN h' = [Returned(h) EXCEPT ![c] = Finish(asked, HelpReply(c, h[c], help_text))]
          ELSE \E outcome \in SearchOutcomes, second \in SecondReplies :
                 LET tool_response == tool_google_search(outcome)
                     searched == [asked EXCEPT !.searches = @ + 1, !.search = outcome,
                                               !.tool_response = tool_response]
                     answered == [searched EXCEPT !.second_reply = second]
                 IN h' = [Returned(h) EXCEPT ![c] =
                            IF tool_response = "raised" THEN failed(searched)
                            ELSE IF second = "raised" THEN failed(answered)
                            ELSE Finish(answered, HelpReply(c, h[c], help_text))]
    /\ UNCHANGED <<sids, session, sio_rooms, joined, database, gemini_model, translated, events>>

TranslationErrorToRoom(c, rec) ==
    <<Packet("chat_error", <<"room", rec.room_id>>, Subscribers(rec.room_id),
             None, <<>>, NoLang, "ia")>>

\* Lines 528-530: emit('chat_error', ...) with no room argument goes to the
\* sid of the event.
TranslationError(c, rec) == <<ToSid(c, "chat_error", None, <<>>, NoLang, "ia")>>

\* Line 494: translated_text = response.text.strip()
TranslatedText(response_text) == Strip(response_text)

\* Lines 489-494 and 528-530: generate_content either raises or answers.
SendTranslate(c) ==
    /\ h[c].pc = "send_translate"
    /\ \/ /\ h' = [Returned(h) EXCEPT ![c] =
                     Finish([@ EXCEPT !.translate = "failed"], TranslationError(c, h[c]))]
          /\ UNCHANGED translated
       \/ \E text \in ResponseTexts :
             /\ h' = [Returned(h) EXCEPT ![c] =
                        [@ EXCEPT !.pc = "send_insert", !.translate = "ok",
                                  !.response_text = text,
                                  !.translated_text = TranslatedText(text)]]
             /\ translated' = Append(translated, c)
    /\ UNCHANGED <<sids, session, sio_rooms, joined, database, gemini_model, events>>

\* The row of lines 501-506.
MessageRow(rec) ==
    [ room_id |-> rec.room_id, sender_id |-> rec.user_id,
      message_original |-> rec.message, message_translated |-> rec.translated_text,
      translated_lang |-> rec.target_lang ]

BroadcastOnlyIfSaved(rec, db_ok) ==
    IF db_ok
    THEN <<ToRoom(rec.room_id, "receive_message", rec.translated_text, rec.target_lang)>>
    ELSE <<>>

\* Lines 514-526: the packet, emitted to room=str(room_id) whatever the insert
\* did.
Broadcast(rec, db_ok) ==
    <<ToRoom(rec.room_id, "receive_message", rec.translated_text, rec.target_lang)>>

SavedMessagesIfConnected(c, rec, db_ok) ==
    IF db_ok /\ sids[c] = "open" THEN Append(messages, MessageRow(rec)) ELSE messages

\* Lines 497-512: the INSERT and its commit, or the rollback of the except
\* branch; the state of the sender's sid plays no part.
SavedMessages(c, rec, db_ok) ==
    IF db_ok THEN Append(messages, MessageRow(rec)) ELSE messages

\* Lines 497-526: the insert, committed or rolled back, then the broadcast to
\* the Socket.IO room of the target room id.
SendInsert(c) ==
    /\ h[c].pc = "send_insert"
    /\ \E db_ok \in BOOLEAN :
          /\ messages' = SavedMessages(c, h[c], db_ok)
          /\ h' = [Returned(h) EXCEPT ![c] =
                     Finish([@ EXCEPT !.inserts = @ + 1, !.committed = db_ok],
                            Broadcast(h[c], db_ok))]
    /\ translated' = SelectSeq(translated, LAMBDA d : d # c)
    /\ UNCHANGED <<sids, session, sio_rooms, joined, chat_rooms, room_participants, room_seq,
                   gemini_model, events>>

Next ==
    \E c \in Conns :
        \/ handle_connect(c)
        \/ handle_disconnect(c)
        \/ handle_authentication(c)
        \/ AuthRooms(c)
        \/ handle_request_conversation(c)
        \/ ConvSelect(c)
        \/ ConvInsert(c)
        \/ ConvInvite(c)
        \/ handle_chat_history(c)
        \/ HistSelect(c)
        \/ handle_chat_message(c)
        \/ SendHelp(c)
        \/ SendTranslate(c)
        \/ SendInsert(c)

Spec == Init /\ [][Next]_vars

(* ------------------------------- claims -------------------------------- *)
Done(c, kind) == h[c].pc = "done" /\ h[c].kind = kind

Sent(rec) == { rec.out[i] : i \in DOMAIN rec.out }

ChatEvents == {"send_message", "request_conversation", "request_chat_history"}

\* C1: for two distinct users, the committed data holds at most one private
\* room with both as participants, and every conversation_ready reply to a
\* request between them carries the id of that one room.
C1_OneRoomPerPair ==
    \A a \in Users, b \in Users :
        a < b =>
            /\ Cardinality(ExistingRooms(<<a, b>>)) <= 1
            /\ \A c \in Conns :
                  (Done(c, "request_conversation")
                      /\ SortedPair(h[c].user_id, h[c].target) = <<a, b>>)
                  => \A p \in Sent(h[c]) :
                        p.event = "conversation_ready"
                        => ExistingRooms(<<a, b>>) = {[id |-> p.room_id, is_private |-> TRUE]}

\* C2: the step in which a translation call fails adds no row to the messages
\* table, leaves every room's history as it was, and emits exactly one packet:
\* a chat_error addressed to the sender's sid, received by no other connection.
C2_TranslationFailure ==
    [][ \A c \in Conns :
          (h[c].pc = "send_translate" /\ h'[c].translate = "failed")
          => /\ messages' = messages
             /\ \A r \in RoomIds : History(r)' = History(r)
             /\ h'[c].pc = "done"
             /\ h'[c].inserts = 0
             /\ Len(h'[c].out) = 1
             /\ h'[c].out[1].event = "chat_error"
             /\ h'[c].out[1].to = <<"sid", c>>
             /\ h'[c].out[1].rcpt \subseteq {c} ]_vars

\* Witness of C2: a translation has failed for a message sent to a room that
\* another connection is subscribed to.
C2_Witness ==
    \E c \in Conns :
        /\ Done(c, "send_message")
        /\ h[c].translate = "failed"
        /\ Subscribers(h[c].room_id) \ {c} # {}

\* C3 as stated: after a successful translation exactly one insert is attempted
\* and exactly one packet is emitted, a receive_message addressed to the target
\* room, whether or not the insert committed, whose translated_message is the
\* text the translation call returned and whose translated_lang is the
\* declared target language.
C3_PacketCarriesReturnedText ==
    \A c \in Conns :
        (Done(c, "send_message") /\ h[c].translate = "ok")
        => /\ h[c].inserts = 1
           /\ Len(h[c].out) = 1
           /\ h[c].out[1].event = "receive_message"
           /\ h[c].out[1].to = <<"room", h[c].room_id>>
           /\ h[c].out[1].text = h[c].response_text
           /\ h[c].out[1].lang = h[c].target_lang

\* C3 amended: as above, with translated_message equal to the returned text
\* with its leading and trailing whitespace removed.
C3_PacketCarriesStrippedText ==
    \A c \in Conns :
        (Done(c, "send_message") /\ h[c].translate = "ok")
        => /\ h[c].inserts = 1
           /\ Len(h[c].out) = 1
           /\ h[c].out[1].event = "receive_message"
           /\ h[c].out[1].to = <<"room", h[c].room_id>>
           /\ h[c].out[1].rcpt = Subscribers(h[c].room_id)
           /\ h[c].out[1].text = Strip(h[c].response_text)
           /\ h[c].out[1].lang = h[c].target_lang
           /\ h[c].committed
              => /\ Len(messages) > 0
                 /\ messages[Len(messages)].message_translated = Strip(h[c].response_text)

\* Witness of C3: a translated message was broadcast to a subscribed connection
\* although its insert failed, and the returned text was padded.
C3_Witness ==
    \E c \in Conns :
        /\ Done(c, "send_message")
        /\ h[c].translate = "ok"
        /\ ~h[c].committed
        /\ h[c].response_text # Strip(h[c].response_text)
        /\ h[c].out[1].rcpt # {}

\* C4: a message that begins with '/ajuda' in any letter case inserts no row,
\* makes no translation call, and emits only a receive_message or a chat_error
\* addressed to the sender's sid and received by no other connection.
C4_HelpStaysWithSender ==
    \A c \in Conns :
        (Done(c, "send_message") /\ StartsWith(LowerStr(h[c].message), CommandPrefix))
        => /\ h[c].inserts = 0
           /\ ~h[c].committed
           /\ h[c].translate = ""
           /\ \A m \in { messages[i] : i \in DOMAIN messages } :
                 ~StartsWith(LowerStr(m.message_original), CommandPrefix)
           /\ \A p \in Sent(h[c]) :
                 /\ p.event \in {"receive_message", "chat_error"}
                 /\ p.to = <<"sid", c>>
                 /\ p.rcpt \subseteq {c}

\* Witness of C4: the answer to a command written in capitals was delivered
\* while another connection was subscribed to the target room.
C4_Witness ==
    \E c \in Conns :
        /\ Done(c, "send_message")
        /\ StartsWith(LowerStr(h[c].message), CommandPrefix)
        /\ ~StartsWith(h[c].message, CommandPrefix)
        /\ \E p \in Sent(h[c]) : p.event = "receive_message" /\ p.rcpt = {c}
        /\ Subscribers(h[c].room_id) \ {c} # {}

\* C5: a chat event that arrives on a sid without a session binding, or with
\* a token that does not decode, inserts nothing, creates no room, and emits
\* exactly one packet: an authentication error addressed to that sid.
C5_UnauthenticatedRejected ==
    \A c \in Conns :
        (h[c].pc = "done" /\ h[c].kind \in ChatEvents
            /\ (~h[c].was_bound \/ h[c].user_id = None))
        => /\ h[c].inserts = 0
           /\ h[c].created = None
           /\ Len(h[c].out) = 1
           /\ h[c].out[1].error = "auth"
           /\ h[c].out[1].to = <<"sid", c>>

\* C6: user_socket_map holds no entry that points at a sid that has
\* disconnected, and no request_conversation sends an invite to a disconnected
\* sid that the map holds for its target.
C6_DisconnectedUserAbsent ==
    /\ \A u \in Users :
          user_socket_map[u] # None => sids[user_socket_map[u]] # "closed"
    /\ \A c \in Conns :
          Done(c, "request_conversation")
          => \A p \in Sent(h[c]) :
                p.event = "new_conversation_invite"
                => ~(sids[p.to[2]] = "closed" /\ user_socket_map[h[c].target] = p.to[2])

\* C7: when an authenticate event binds a sid that was bound to a different
\* user, user_socket_map no longer maps that user to the sid afterwards.
C7_StaleMappingRemoved ==
    [][ \A c \in Conns, u1 \in Users, u2 \in Users :
          (u1 # u2 /\ socket_user_map[c] = u1 /\ socket_user_map'[c] = u2)
          => user_socket_map'[u1] # c ]_vars

\* C8: socket_user_map never binds two sids to the same user.
C8_OneConnectionPerUser ==
    \A c1 \in Conns, c2 \in Conns :
        (c1 # c2 /\ socket_user_map[c1] # None)
        => socket_user_map[c1] # socket_user_map[c2]

\* C9: a sid with a session binding is subscribed only to rooms in which the
\* user currently bound to it has a participant row.
C9_SubscriptionsFollowMembership ==
    \A c \in Conns :
        socket_user_map[c] # None
        => sio_rooms[c] \subseteq RoomsOf(socket_user_map[c])

\* C10: when a user whose sid is bound to them sends a message to a private
\* room they share with another user and the translation succeeds, the
\* receive_message is delivered to the sender's own sid as well as to every
\* sid subscribed to the room.
C10_SenderReceivesOwnMessage ==
    \A c \in Conns :
        (/\ Done(c, "send_message")
         /\ h[c].translate = "ok"
         /\ sids[c] = "open"
         /\ socket_user_map[c] = h[c].user_id
         /\ \E other \in Users \ {h[c].user_id} :
               h[c].room_id \in RoomsOf(h[c].user_id) \cap RoomsOf(other))
        => \E p \in Sent(h[c]) :
              /\ p.event = "receive_message"
              /\ c \in p.rcpt
              /\ Subscribers(h[c].room_id) \subseteq p.rcpt

\* Whether sid d completed its translation before sid c did, among those whose
\* broadcast is still to come.
TranslatedBefore(d, c) ==
    \E i, j \in DOMAIN translated : i < j /\ translated[i] = d /\ translated[j] = c

\* C11: when a send_message handler broadcasts to a room, no handler of another
\* sender whose translation for the same room completed earlier is still
\* waiting to broadcast.
C11_BroadcastInTranslationOrder ==
    [][ \A c \in Conns, d \in Conns :
          (/\ h[c].pc = "send_insert" /\ h'[c].pc = "done"
           /\ h[d].pc = "send_insert"
           /\ h[d].room_id = h[c].room_id
           /\ h[d].user_id # h[c].user_id
           /\ Subscribers(h[c].room_id) # {})
          => ~TranslatedBefore(d, c) ]_vars

\* C12: a request_conversation whose target is the requesting user creates no
\* room, emits no conversation_ready, and reports an error to the requester.
C12_SelfConversationRejected ==
    \A c \in Conns :
        (Done(c, "request_conversation") /\ h[c].user_id # None
            /\ h[c].target = h[c].user_id)
        => /\ h[c].created = None
           /\ \A p \in Sent(h[c]) : p.event # "conversation_ready"
           /\ \E p \in Sent(h[c]) : p.event = "chat_error" /\ p.to = <<"sid", c>>

\* The participant rows of a room.
RowsOfRoom(id) == { i \in DOMAIN room_participants : room_participants[i].room_id = id }

\* C13: in every committed state every private room has exactly two participant
\* rows and every participant row belongs to a room: the room and its two rows
\* are committed together, and a transaction that fails leaves neither.
C13_RoomAndParticipantsAtomic ==
    /\ \A r \in chat_rooms : r.is_private => Cardinality(RowsOfRoom(r.id)) = 2
    /\ \A i \in DOMAIN room_participants :
          \E r \in chat_rooms : r.id = room_participants[i].room_id

\* A room was committed with its rows after another creation had been rolled
\* back at the participant rows.
C13_Witness ==
    /\ chat_rooms # {}
    /\ room_seq > Cardinality(chat_rooms)
    /\ \E c \in Conns : Done(c, "request_conversation") /\ h[c].created # None

\* The invitations a handler emitted.
Invites(rec) == { i \in DOMAIN rec.out : rec.out[i].event = "new_conversation_invite" }

\* C14: when request_conversation has created room R, the requester's sid is
\* subscribed to R and, if the session maps gave a live sid for the target,
\* that sid is subscribed to R and has received exactly one invitation carrying
\* R; when no room was created, no invitation is emitted.  The sid found for
\* the target is kept in the handler's room_id field.
C14_CreationSideEffects ==
    \A c \in Conns :
        Done(c, "request_conversation") =>
            IF h[c].created # None
            THEN /\ sids[c] = "open" => h[c].created \in sio_rooms[c]
                 /\ \A t \in Conns :
                       (h[c].room_id = t /\ sids[t] = "open")
                       => /\ h[c].created \in sio_rooms[t]
                          /\ Cardinality(Invites(h[c])) = 1
                          /\ \A i \in Invites(h[c]) :
                                /\ h[c].out[i].to = <<"sid", t>>
                                /\ h[c].out[i].rcpt = {t}
                                /\ h[c].out[i].room_id = h[c].created
            ELSE Invites(h[c]) = {}

\* C15: once an authenticate event with a valid token has loaded the user's
\* rooms, the sid is subscribed to every room the user takes part in, among
\* them those created while the user was offline; a subscription lasts as long
\* as the sid stays connected; and a broadcast to a room reaches every
\* connected sid subscribed to it.
C15_SubscribedAtNextLogin ==
    /\ [](\A c \in Conns :
            (Done(c, "authenticate") /\ h[c].loaded /\ sids[c] = "open")
            => \A r \in RoomIds :
                  (\E i \in DOMAIN room_participants :
                      /\ room_participants[i].user_id = h[c].user_id
                      /\ room_participants[i].room_id = r)
                  => r \in sio_rooms[c])
    /\ [][\A c \in Conns : \A r \in sio_rooms[c] :
            sids'[c] = "open" => r \in sio_rooms'[c]]_vars
    /\ [](\A d \in Conns : Done(d, "send_message") =>
            \A p \in Sent(h[d]) : \A r \in RoomIds :
                p.to = <<"room", r>>
                => \A c \in Conns : (sids[c] = "open" /\ r \in sio_rooms[c]) => c \in p.rcpt)

\* A room was created for a user who had no session; the user's authenticate
\* then arrived on a sid not subscribed to it, and leaves the sid subscribed.
C15_Witness ==
    \E c \in Conns :
        /\ Done(c, "authenticate") /\ h[c].loaded /\ h[c].missed /\ ~h[c].was_bound
        /\ sids[c] = "open"
        /\ RoomsOf(h[c].user_id) \subseteq sio_rooms[c]

\* C16: an authenticate event with a valid token emits auth_success and binds
\* the session in both directions before the rooms are loaded; when loading
\* them fails the handler ends having emitted nothing else, and no sid gains
\* a subscription and no binding changes in that step.
C16_AuthSucceedsWithoutRooms ==
    [][ \A c \in Conns :
          /\ (h[c].pc # "auth_rooms" /\ h'[c].pc = "auth_rooms")
             => /\ Len(h'[c].out) = 1
                /\ h'[c].out[1].event = "auth_success"
                /\ h'[c].out[1].to = <<"sid", c>>
                /\ socket_user_map'[c] = h'[c].user_id
                /\ user_socket_map'[h'[c].user_id] = c
          /\ (h[c].pc = "auth_rooms" /\ h'[c].pc = "done" /\ ~h'[c].loaded)
             => /\ h'[c].out = h[c].out
                /\ sio_rooms' = sio_rooms
                /\ session' = session ]_vars

\* The room query failed for a user who takes part in a room the sid is not
\* subscribed to: the sid is bound both ways, got auth_success only, and has
\* no subscription.
C16_Witness ==
    \E c \in Conns :
        /\ Done(c, "authenticate") /\ h[c].user_id # None /\ ~h[c].loaded
        /\ h[c].missed /\ sio_rooms[c] = {}
        /\ Len(h[c].out) = 1 /\ h[c].out[1].event = "auth_success"
        /\ h[c].out[1].rcpt = {c}
        /\ socket_user_map[c] = h[c].user_id
        /\ user_socket_map[h[c].user_id] = c

\* C17: a sid with a send_message handler waiting for the translation can
\* always be disconnected; when the translation then succeeds the handler goes
\* on to the insert, attempts it once, and when the database accepts it the row
\* is appended to the messages and is part of the room's history.
C17_DisconnectDuringTranslation ==
    /\ [](\A c \in Conns :
            (sids[c] = "open" /\ h[c].pc = "send_translate")
            => ENABLED handle_disconnect(c))
    /\ [][ \A c \in Conns : sids[c] = "closed" =>
             /\ (h[c].pc = "send_translate" /\ h'[c].translate = "ok")
                => h'[c].pc = "send_insert"
             /\ (h[c].pc = "send_insert" /\ h'[c].pc = "done")
                => /\ h'[c].inserts = 1
                   /\ h'[c].committed
                      => /\ messages' = Append(messages, MessageRow(h[c]))
                         /\ \E i \in DOMAIN History(h[c].room_id)' :
                               History(h[c].room_id)'[i] = MessageRow(h[c]) ]_vars

\* The handler of a sid that has disconnected has translated, saved its row
\* and broadcast it.
C17_Witness ==
    \E c \in Conns :
        /\ Done(c, "send_message") /\ sids[c] = "closed"
        /\ h[c].translate = "ok" /\ h[c].committed
        /\ messages # <<>> /\ messages[Len(messages)] = MessageRow(h[c])
        /\ \E p \in Sent(h[c]) : p.event = "receive_message"

C19_AssistantProtocol ==
    \A c \in Conns :
        (Done(c, "send_message") /\ h[c].first_reply # "") =>
            LET rec == h[c]
                answer == \/ rec.first_reply = "text"
                          \/ rec.second_reply = "text"
            IN /\ rec.searches <= 1
               /\ rec.searches = 1 <=> rec.first_reply = "tool_google_search"
               /\ rec.search = "results" => rec.tool_response = "results"
               /\ rec.search \in {"empty", "raised"}
                  => rec.tool_response = "error" /\ rec.second_reply # ""
               /\ rec.first_reply = "text" => rec.second_reply = ""
               /\ Len(rec.out) = 1
               /\ rec.out[1].to = <<"sid", c>>
               /\ rec.out[1].rcpt \subseteq {c}
               /\ IF answer
                  THEN rec.out[1].event = "receive_message" /\ rec.out[1].text \in HelpTexts
                  ELSE rec.out[1].event = "chat_error"

\* The search raised, its error value was passed to the model, and the model's
\* answer reached the sender.
C19_Witness ==
    \E c \in Conns :
        /\ Done(c, "send_message") /\ h[c].first_reply = "tool_google_search"
        /\ h[c].search = "raised" /\ h[c].tool_response = "error"
        /\ h[c].second_reply = "text"
        /\ h[c].out[1].event = "receive_message" /\ h[c].out[1].rcpt = {c}

\* C20: when a sid other than the one a user is bound to disconnects, the
\* user's binding to a sid that is still connected stays as it is.
C20_SupersededDisconnectKeepsBinding ==
    [][ \A u \in Users, c1 \in Conns, c2 \in Conns :
          (/\ c1 # c2
           /\ user_socket_map[u] = c2 /\ sids[c2] = "open"
           /\ sids[c1] = "open" /\ sids'[c1] = "closed")
          => user_socket_map'[u] = c2 ]_vars

\* C21: a send_message handler commits a row for an existing room, or
\* broadcasts receive_message to it, only if the user of the token has a
\* participant row in that room.
C21_OnlyParticipantsSend ==
    \A c \in Conns :
        (/\ Done(c, "send_message") /\ h[c].user_id # None
         /\ \E r \in chat_rooms : r.id = h[c].room_id
         /\ \/ h[c].committed
            \/ \E p \in Sent(h[c]) :
                  p.event = "receive_message" /\ p.to = <<"room", h[c].room_id>>)
        => h[c].room_id \in RoomsOf(h[c].user_id)

\* The replies a request_conversation handler sent to the requester's sid.
Replies(c) ==
    { i \in DOMAIN h[c].out :
        /\ h[c].out[i].to = <<"sid", c>>
        /\ h[c].out[i].event \in {"conversation_ready", "chat_error"} }

\* C22: a request_conversation with a valid token and a target ends with
\* exactly one reply to the requester, conversation_ready or chat_error, and
\* when the reply is chat_error the request has committed no room and no
\* participant rows.  Stated for a requester that is still connected and a
\* target whose session entry, if any, names a connected sid, so that no
\* join_room is made for a sid that has gone.
C22_OneReplyAndErrorCommitsNothing ==
    \A c \in Conns :
        (/\ Done(c, "request_conversation") /\ h[c].user_id # None /\ h[c].target # None
         /\ sids[c] = "open"
         /\ \/ user_socket_map[h[c].target] = None
            \/ sids[user_socket_map[h[c].target]] = "open")
        => /\ Cardinality(Replies(c)) = 1
           /\ \A i \in Replies(c) :
                 h[c].out[i].event = "chat_error"
                 => /\ ~h[c].committed
                    /\ h[c].created = None
====
